---- MODULE Spec2Model ----
(***************************************************************************)
(* Format negotiation of the PipeWire screen-capture helpers of reel:      *)
(* buildPipewireParams and parseStreamFormat, in the two profiles          *)
(*   src/src/screencapture/pipewire/pipewire_stream_extra.c      (desktop) *)
(*   src/src/screencapture_backends/pipewire/pipewire_stream_extra.c       *)
(*                                                              (backends) *)
(* A parameter object (struct spa_pod) is modelled by its header and the   *)
(* properties the two functions write or read.  parseStreamFormat is       *)
(* modelled statement by statement; `struct spa_video_info_raw info_raw`   *)
(* is declared without an initialiser, so every member the payload parse   *)
(* does not write holds an arbitrary value.                                *)
(***************************************************************************)
EXTENDS Integers, Sequences, FiniteSets, TLC

\* Largest width / height of the enumerated server rectangles.
MaxDim == 1

----------------------------------------------------------------------------
\* Values of the libspa enumerations the source names (spa/param/format.h,
\* spa/param/video/raw.h).
SPA_MEDIA_TYPE_audio == 1
SPA_MEDIA_TYPE_video == 2
SPA_MEDIA_SUBTYPE_raw == 1

SPA_VIDEO_FORMAT_I420 == 2
SPA_VIDEO_FORMAT_YUY2 == 4
SPA_VIDEO_FORMAT_RGBx == 7
SPA_VIDEO_FORMAT_BGRx == 8
SPA_VIDEO_FORMAT_RGBA == 11
SPA_VIDEO_FORMAT_BGRA == 12
SPA_VIDEO_FORMAT_RGB == 15
SPA_VIDEO_FORMAT_BGR == 16

\* enum SupportedPixelFormat of the desktop profile.
SUPPORTED_PIXEL_FORMAT_RGBA == 0
SUPPORTED_PIXEL_FORMAT_RGBX == 1
SUPPORTED_PIXEL_FORMAT_RGB == 2
SUPPORTED_PIXEL_FORMAT_BGRA == 3
SUPPORTED_PIXEL_FORMAT_BGRX == 4
SUPPORTED_PIXEL_FORMAT_BGR == 5

SupportedPixelFormat ==
    { SUPPORTED_PIXEL_FORMAT_RGBA, SUPPORTED_PIXEL_FORMAT_RGBX,
      SUPPORTED_PIXEL_FORMAT_RGB, SUPPORTED_PIXEL_FORMAT_BGRA,
      SUPPORTED_PIXEL_FORMAT_BGRX, SUPPORTED_PIXEL_FORMAT_BGR }

Profiles == {"desktop", "backends"}

Range(s) == { s[i] : i \in DOMAIN s }

----------------------------------------------------------------------------
\* Pods.  A property is [pod, vals]: pod "None" (property absent), a plain
\* value ("Id", "Rectangle", "Fraction": vals = <<v>>), a choice
\* ("ChoiceEnum": vals = <<default, alternative...>>; "ChoiceRange":
\* vals = <<default, min, max>>), or "Int" (a property of the wrong type).
SPA_RECTANGLE(w, h) == [width |-> w, height |-> h]
SPA_FRACTION(n, d) == [num |-> n, denom |-> d]
Prop(pod, vals) == [pod |-> pod, vals |-> vals]
NoProp == Prop("None", <<>>)

\* SPA_POD_CHOICE_ENUM_Id of buildPipewireParams: the first value is the
\* default, the values after it the alternatives.
EnumFormats_Backends ==
    << SPA_VIDEO_FORMAT_RGB, SPA_VIDEO_FORMAT_RGB, SPA_VIDEO_FORMAT_RGBA,
       SPA_VIDEO_FORMAT_RGBx, SPA_VIDEO_FORMAT_BGRx, SPA_VIDEO_FORMAT_YUY2,
       SPA_VIDEO_FORMAT_I420 >>

EnumFormats_Desktop_WithYUY2 ==
    << SPA_VIDEO_FORMAT_RGB, SPA_VIDEO_FORMAT_RGB, SPA_VIDEO_FORMAT_RGBA,
       SPA_VIDEO_FORMAT_RGBx, SPA_VIDEO_FORMAT_BGR, SPA_VIDEO_FORMAT_BGRx,
       SPA_VIDEO_FORMAT_YUY2 >>

EnumFormats_Desktop ==
    << SPA_VIDEO_FORMAT_RGB, SPA_VIDEO_FORMAT_RGB, SPA_VIDEO_FORMAT_RGBA,
       SPA_VIDEO_FORMAT_RGBx, SPA_VIDEO_FORMAT_BGR, SPA_VIDEO_FORMAT_BGRx >>

DefaultRectangle(p) ==
    IF p = "desktop" THEN SPA_RECTANGLE(1080, 1920) ELSE SPA_RECTANGLE(320, 240)

DefaultFraction(p) ==
    IF p = "desktop" THEN SPA_FRACTION(60, 1) ELSE SPA_FRACTION(25, 1)

\* The object spa_pod_builder_add_object builds in buildPipewireParams.
BuildOffer(p) ==
    [ hdr_ok        |-> TRUE,
      media_type    |-> SPA_MEDIA_TYPE_video,
      media_subtype |-> SPA_MEDIA_SUBTYPE_raw,
      format        |-> Prop("ChoiceEnum",
                             IF p = "desktop" THEN EnumFormats_Desktop
                                              ELSE EnumFormats_Backends),
      size          |-> Prop("ChoiceRange",
                             << DefaultRectangle(p), SPA_RECTANGLE(1, 1),
                                SPA_RECTANGLE(4096, 4096) >>),
      framerate     |-> Prop("ChoiceRange",
                             << DefaultFraction(p), SPA_FRACTION(0, 1),
                                SPA_FRACTION(1000, 1) >>) ]

\* No pod: the value of `offer` before buildPipewireParams and of `param`
\* between calls.
NoPod ==
    [ hdr_ok |-> FALSE, media_type |-> 0, media_subtype |-> 0,
      format |-> NoProp, size |-> NoProp, framerate |-> NoProp ]

----------------------------------------------------------------------------
\* Parameter objects the server may hand to parseStreamFormat.
ServerFormats ==
    { SPA_VIDEO_FORMAT_I420, SPA_VIDEO_FORMAT_YUY2, SPA_VIDEO_FORMAT_RGBx,
      SPA_VIDEO_FORMAT_BGRx, SPA_VIDEO_FORMAT_RGBA, SPA_VIDEO_FORMAT_BGRA,
      SPA_VIDEO_FORMAT_RGB, SPA_VIDEO_FORMAT_BGR }

Dims == 0 .. MaxDim

ServerRectangles(p) ==
    { SPA_RECTANGLE(w, h) : w \in Dims, h \in Dims } \cup { DefaultRectangle(p) }

FormatProps ==
    { NoProp, Prop("Int", <<0>>) } \cup { Prop("Id", <<f>>) : f \in ServerFormats }

SizeProps(p) ==
    { NoProp, Prop("Int", <<0>>) }
        \cup { Prop("Rectangle", <<r>>) : r \in ServerRectangles(p) }

\* An object whose header does not parse: it has no mediaSubtype property.
MalformedObject ==
    [ NoPod EXCEPT !.media_type = SPA_MEDIA_TYPE_video ]

\* Objects of another media type or subtype carry no video-raw properties.
OtherObjects ==
    { [ NoPod EXCEPT !.hdr_ok = TRUE, !.media_type = t, !.media_subtype = s ] :
        <<t, s>> \in { <<SPA_MEDIA_TYPE_audio, SPA_MEDIA_SUBTYPE_raw>>,
                       <<SPA_MEDIA_TYPE_audio, SPA_MEDIA_SUBTYPE_raw + 1>>,
                       <<SPA_MEDIA_TYPE_video, SPA_MEDIA_SUBTYPE_raw + 1>> } }

VideoRawObjects(p) ==
    { [ hdr_ok        |-> TRUE,
        media_type    |-> SPA_MEDIA_TYPE_video,
        media_subtype |-> SPA_MEDIA_SUBTYPE_raw,
        format        |-> f,
        size          |-> s,
        framerate     |-> Prop("Fraction", <<DefaultFraction(p)>>) ] :
        f \in FormatProps, s \in SizeProps(p) }

ServerObjects(p) == { MalformedObject } \cup OtherObjects \cup VideoRawObjects(p)

\* Both video-raw properties are present as plain values of the right type.
PayloadWellFormed(pod) ==
    pod.format.pod = "Id" /\ pod.size.pod = "Rectangle"

----------------------------------------------------------------------------
\* libspa calls, as parseStreamFormat uses them.

\* spa_format_parse: a negative result unless the object has both header
\* properties; on success the two out-parameters are written.
spa_format_parse(pod, media_type, media_subtype) ==
    IF pod.hdr_ok
    THEN [ res |-> 0, media_type |-> pod.media_type,
           media_subtype |-> pod.media_subtype ]
    ELSE [ res |-> -1, media_type |-> media_type,
           media_subtype |-> media_subtype ]

\* The members of info_raw that spa_format_video_raw_parse writes: every
\* property is optional, and one that is absent, of another type or a
\* choice still to be fixated is skipped.
MembersWritten(pod) ==
    (IF pod.format.pod = "Id" THEN {"format"} ELSE {})
        \cup (IF pod.size.pod = "Rectangle" THEN {"size"} ELSE {})

\* spa_format_video_raw_parse(param, &info_raw): info is the content of
\* info_raw before the call.
spa_format_video_raw_parse(pod, info) ==
    [ format |-> IF "format" \in MembersWritten(pod)
                 THEN pod.format.vals[1] ELSE info.format,
      size   |-> IF "size" \in MembersWritten(pod)
                 THEN pod.size.vals[1] ELSE info.size ]

\* What an uninitialised struct spa_video_info_raw may hold: the bytes the
\* stack held before the call, here zeroes or the remains of another frame.
Uninitialised ==
    [ format : { 0, SPA_VIDEO_FORMAT_BGR },
      size   : { SPA_RECTANGLE(0, 0), SPA_RECTANGLE(1, 0) } ]

NoInfo == [ format |-> 0, size |-> SPA_RECTANGLE(0, 0) ]

----------------------------------------------------------------------------
\* parseStreamFormat.

InitialResult_RGB ==
    [ format |-> SUPPORTED_PIXEL_FORMAT_RGB, width |-> 0, height |-> 0,
      padding |-> 0 ]

\* StreamFormat result = { 0, 0, 0, 0 };
InitialResult == [ format |-> 0, width |-> 0, height |-> 0, padding |-> 0 ]

MediaTypeMismatch_Never(media_type) == FALSE

\* if (media_type != SPA_MEDIA_TYPE_video) return result;
MediaTypeMismatch(media_type) == media_type # SPA_MEDIA_TYPE_video

\* if (media_subtype != SPA_MEDIA_SUBTYPE_raw) return result;
MediaSubtypeMismatch(media_subtype) == media_subtype # SPA_MEDIA_SUBTYPE_raw

MapPixelFormat_Conflated(format, current) ==
    IF format = SPA_VIDEO_FORMAT_RGB THEN SUPPORTED_PIXEL_FORMAT_RGB
    ELSE IF format = SPA_VIDEO_FORMAT_RGBA THEN SUPPORTED_PIXEL_FORMAT_RGB
    ELSE IF format = SPA_VIDEO_FORMAT_RGBx THEN SUPPORTED_PIXEL_FORMAT_RGBX
    ELSE IF format = SPA_VIDEO_FORMAT_BGRA THEN SUPPORTED_PIXEL_FORMAT_BGRA
    ELSE IF format = SPA_VIDEO_FORMAT_BGRx THEN SUPPORTED_PIXEL_FORMAT_BGRX
    ELSE IF format = SPA_VIDEO_FORMAT_BGR THEN SUPPORTED_PIXEL_FORMAT_BGR
    ELSE current

\* The if / else-if chain of the desktop profile; `current` is result.format
\* before it, which no branch changes when the id matches none.
MapPixelFormat(format, current) ==
    IF format = SPA_VIDEO_FORMAT_RGB THEN SUPPORTED_PIXEL_FORMAT_RGB
    ELSE IF format = SPA_VIDEO_FORMAT_RGBA THEN SUPPORTED_PIXEL_FORMAT_RGBA
    ELSE IF format = SPA_VIDEO_FORMAT_RGBx THEN SUPPORTED_PIXEL_FORMAT_RGBX
    ELSE IF format = SPA_VIDEO_FORMAT_BGRA THEN SUPPORTED_PIXEL_FORMAT_BGRA
    ELSE IF format = SPA_VIDEO_FORMAT_BGRx THEN SUPPORTED_PIXEL_FORMAT_BGRX
    ELSE IF format = SPA_VIDEO_FORMAT_BGR THEN SUPPORTED_PIXEL_FORMAT_BGR
    ELSE current

VARIABLES
    profile,        \* which of the two source files is built
    offer,          \* the pod buildPipewireParams returned
    pc,             \* position of the control flow
    param,          \* parseStreamFormat's argument
    media_type,     \* locals of parseStreamFormat
    media_subtype,
    info_raw,
    info_init,      \* the members of info_raw that have been written
    result,
    returned_at,    \* the return statement the call left by
    steps,          \* the steps of the call executed so far
    prev            \* the previous call: its argument and what it returned

vars == << profile, offer, pc, param, media_type, media_subtype, info_raw,
           info_init, result, returned_at, steps, prev >>

locals == << media_type, media_subtype, info_raw, info_init, result >>

NoCall ==
    [ valid |-> FALSE, param |-> NoPod, result |-> InitialResult,
      returned_at |-> "none" ]

Init ==
    /\ profile \in Profiles
    /\ offer = NoPod
    /\ pc = "Start"
    /\ param = NoPod
    /\ media_type = 0
    /\ media_subtype = 0
    /\ info_raw = NoInfo
    /\ info_init = {}
    /\ result = InitialResult
    /\ returned_at = "none"
    /\ steps = <<>>
    /\ prev = NoCall

\* The stream is set up: the offer is built once, before any format arrives.
buildPipewireParams ==
    /\ pc = "Start"
    /\ offer' = BuildOffer(profile)
    /\ pc' = "Idle"
    /\ UNCHANGED << profile, param, locals, returned_at, steps, prev >>

\* parseStreamFormat(param) is entered: result, media_type and media_subtype
\* are zero-initialised.
Call(pod) ==
    /\ pc = "Idle"
    /\ param' = pod
    /\ result' = InitialResult
    /\ media_type' = 0
    /\ media_subtype' = 0
    /\ info_raw' = NoInfo
    /\ info_init' = {}
    /\ returned_at' = "none"
    /\ steps' = <<>>
    /\ pc' = "HeaderParse"
    /\ UNCHANGED << profile, offer, prev >>

\* if (spa_format_parse(param, &media_type, &media_subtype) < 0) return result;
HeaderParse ==
    /\ pc = "HeaderParse"
    /\ LET r == spa_format_parse(param, media_type, media_subtype) IN
        /\ media_type' = r.media_type
        /\ media_subtype' = r.media_subtype
        /\ IF r.res < 0
           THEN pc' = "Done" /\ returned_at' = "header"
           ELSE pc' = "MediaTypeCheck" /\ UNCHANGED returned_at
    /\ steps' = Append(steps, "header")
    /\ UNCHANGED << profile, offer, param, info_raw, info_init, result, prev >>

MediaTypeCheck ==
    /\ pc = "MediaTypeCheck"
    /\ IF MediaTypeMismatch(media_type)
       THEN pc' = "Done" /\ returned_at' = "media_type"
       ELSE pc' = "MediaSubtypeCheck" /\ UNCHANGED returned_at
    /\ steps' = Append(steps, "media_type")
    /\ UNCHANGED << profile, offer, param, locals, prev >>

MediaSubtypeCheck ==
    /\ pc = "MediaSubtypeCheck"
    /\ IF MediaSubtypeMismatch(media_subtype)
       THEN pc' = "Done" /\ returned_at' = "media_subtype"
       ELSE pc' = "PayloadParse" /\ UNCHANGED returned_at
    /\ steps' = Append(steps, "media_subtype")
    /\ UNCHANGED << profile, offer, param, locals, prev >>

\* struct spa_video_info_raw info_raw;
\* spa_format_video_raw_parse(param, &info_raw);
\* The call's return value is dropped.
PayloadParse ==
    /\ pc = "PayloadParse"
    /\ \E garbage \in Uninitialised :
           info_raw' = spa_format_video_raw_parse(param, garbage)
    /\ info_init' = MembersWritten(param)
    /\ steps' = Append(steps, "payload")
    /\ pc' = "CopyDimensions"
    /\ UNCHANGED << profile, offer, param, media_type, media_subtype, result,
                    returned_at, prev >>

\* result.width = info_raw.size.width; result.height = info_raw.size.height;
CopyDimensions ==
    /\ pc = "CopyDimensions"
    /\ result' = [ result EXCEPT !.width = info_raw.size.width,
                                 !.height = info_raw.size.height ]
    /\ steps' = Append(steps, "dimensions")
    /\ pc' = "MapFormat"
    /\ UNCHANGED << profile, offer, param, media_type, media_subtype, info_raw,
                    info_init, returned_at, prev >>

\* desktop: the if / else-if chain; backends: result.format = info_raw.format;
\* then return result;
MapFormat ==
    /\ pc = "MapFormat"
    /\ result' = [ result EXCEPT !.format =
                       IF profile = "desktop"
                       THEN MapPixelFormat(info_raw.format, result.format)
                       ELSE info_raw.format ]
    /\ steps' = Append(steps, "format")
    /\ returned_at' = "end"
    /\ pc' = "Done"
    /\ UNCHANGED << profile, offer, param, media_type, media_subtype, info_raw,
                    info_init, prev >>

\* The caller has the returned StreamFormat; the frame of the call is gone.
EndCall ==
    /\ pc = "Done"
    /\ param' = NoPod
    /\ media_type' = 0
    /\ media_subtype' = 0
    /\ info_raw' = NoInfo
    /\ info_init' = {}
    /\ result' = InitialResult
    /\ returned_at' = "none"
    /\ steps' = <<>>
    /\ pc' = "Idle"
    /\ UNCHANGED << profile, offer >>

Return ==
    /\ EndCall
    /\ UNCHANGED prev

\* The same return, observed: the call's argument and result are kept for
\* comparison with the next call's.
ReturnObserved ==
    /\ EndCall
    /\ prev' = [ valid |-> TRUE, param |-> param, result |-> result,
                 returned_at |-> returned_at ]

Next ==
    \/ buildPipewireParams
    \/ \E pod \in ServerObjects(profile) \cup { offer } : Call(pod)
    \/ HeaderParse
    \/ MediaTypeCheck
    \/ MediaSubtypeCheck
    \/ PayloadParse
    \/ CopyDimensions
    \/ MapFormat
    \/ Return

Spec == Init /\ [][Next]_vars

NextObserved ==
    \/ buildPipewireParams
    \/ \E pod \in ServerObjects(profile) \cup { offer } : Call(pod)
    \/ HeaderParse
    \/ MediaTypeCheck
    \/ MediaSubtypeCheck
    \/ PayloadParse
    \/ CopyDimensions
    \/ MapFormat
    \/ ReturnObserved

\* Sequences of calls, each compared with the one before it.
SpecObserved == Init /\ [][NextObserved]_vars

----------------------------------------------------------------------------
\* Vocabulary of the properties.

\* The call has returned / returned from its last statement / returned from
\* one of the three gates.
Parsed == pc = "Done" /\ returned_at = "end"
Rejected == pc = "Done" /\ returned_at \in {"header", "media_type", "media_subtype"}

\* The server ids of the desktop profile's table, each with the internal
\* format of the same name.
NamedFormat ==
    { <<SPA_VIDEO_FORMAT_RGB, SUPPORTED_PIXEL_FORMAT_RGB>>,
      <<SPA_VIDEO_FORMAT_RGBA, SUPPORTED_PIXEL_FORMAT_RGBA>>,
      <<SPA_VIDEO_FORMAT_RGBx, SUPPORTED_PIXEL_FORMAT_RGBX>>,
      <<SPA_VIDEO_FORMAT_BGRA, SUPPORTED_PIXEL_FORMAT_BGRA>>,
      <<SPA_VIDEO_FORMAT_BGRx, SUPPORTED_PIXEL_FORMAT_BGRX>>,
      <<SPA_VIDEO_FORMAT_BGR, SUPPORTED_PIXEL_FORMAT_BGR>> }

TableFormats == { e[1] : e \in NamedFormat }

\* The id and rectangle a well-formed video/raw object carries.
IdOf(pod) == pod.format.vals[1]
RectOf(pod) == pod.size.vals[1]

GeometryKept(pod, r) ==
    r.width = RectOf(pod).width /\ r.height = RectOf(pod).height

\* A well-formed video/raw object reached the end of a desktop parse.
DesktopParsed ==
    Parsed /\ profile = "desktop" /\ PayloadWellFormed(param)

AllZero == [ format |-> 0, width |-> 0, height |-> 0, padding |-> 0 ]

PassesGates(pod) ==
    /\ pod.hdr_ok
    /\ pod.media_type = SPA_MEDIA_TYPE_video
    /\ pod.media_subtype = SPA_MEDIA_SUBTYPE_raw

----------------------------------------------------------------------------
\* C1: in the desktop profile a well-formed video/raw object whose format id
\* is not in the table parses to a pixel_format that is a distinguished
\* Unknown value, different from every supported format, with the object's
\* width and height.
C1_UnmappedIsUnknown ==
    (DesktopParsed /\ IdOf(param) \notin TableFormats)
        => /\ result.format \notin SupportedPixelFormat
           /\ GeometryKept(param, result)

\* C2: an object that passes the header gates but whose video-raw payload
\* does not parse (a property absent or mistyped) is refused: the call does
\* not return a StreamFormat filled from members of info_raw that the
\* payload parse did not write.
C2_BadPayloadIsMalformed ==
    (pc = "Done" /\ PassesGates(param) /\ ~PayloadWellFormed(param))
        => /\ returned_at # "end"
           /\ {"format", "size"} \subseteq info_init

\* C3: two calls that end differently (malformed header, wrong media type,
\* wrong subtype, successful parse) return different values.
C3_OutcomesDistinct ==
    (pc = "Done" /\ prev.valid /\ prev.returned_at # returned_at)
        => prev.result # result

\* C4: the steps of a call run in the order header parse, media-type check,
\* media-subtype check, payload parse, (dimensions,) format mapping; the
\* payload parse is reached only when the header parsed and the object is
\* video/raw, and an audio object never reaches it.
StepOrder ==
    << "header", "media_type", "media_subtype", "payload", "dimensions", "format" >>

C4_GatesInOrder ==
    /\ Len(steps) <= Len(StepOrder)
    /\ steps = SubSeq(StepOrder, 1, Len(steps))
    /\ (pc = "PayloadParse" \/ "payload" \in Range(steps)) => PassesGates(param)
    /\ (param.hdr_ok /\ param.media_type = SPA_MEDIA_TYPE_audio)
           => /\ "payload" \notin Range(steps)
              /\ pc \notin {"PayloadParse", "CopyDimensions", "MapFormat"}
              /\ info_init = {}

C4_AudioRejected ==
    /\ pc = "Done"
    /\ param.hdr_ok
    /\ param.media_type = SPA_MEDIA_TYPE_audio
    /\ param.media_subtype = SPA_MEDIA_SUBTYPE_raw
    /\ steps = << "header", "media_type" >>
    /\ returned_at = "media_type"

\* C5: parsing the very offer buildPipewireParams built yields the offer's
\* default format (RGB) and default rectangle.
C5_RoundTrip ==
    (Parsed /\ param = offer)
        => /\ result.format =
                  IF profile = "desktop" THEN SUPPORTED_PIXEL_FORMAT_RGB
                                         ELSE SPA_VIDEO_FORMAT_RGB
           /\ offer.format.vals[1] = SPA_VIDEO_FORMAT_RGB
           /\ result.width = offer.size.vals[1].width
           /\ result.height = offer.size.vals[1].height

\* C6: the desktop offer is tagged video/raw, its format choice has RGB as
\* default and lists each of RGB, RGBA, RGBx, BGRA, BGRx, BGR.
C6_OfferListsAllSix ==
    (profile = "desktop" /\ pc # "Start")
        => /\ offer.media_type = SPA_MEDIA_TYPE_video
           /\ offer.media_subtype = SPA_MEDIA_SUBTYPE_raw
           /\ offer.format.pod = "ChoiceEnum"
           /\ Head(offer.format.vals) = SPA_VIDEO_FORMAT_RGB
           /\ TableFormats \subseteq Range(offer.format.vals)

\* C7: in the desktop profile a well-formed video/raw object with one of the
\* six table ids parses to the internal format of the same name with its
\* width and height in place, and two calls with different table ids never
\* return the same internal format.
C7_TableMapping ==
    (DesktopParsed /\ IdOf(param) \in TableFormats)
        => /\ <<IdOf(param), result.format>> \in NamedFormat
           /\ GeometryKept(param, result)
           /\ ( /\ prev.valid
                /\ prev.returned_at = "end"
                /\ PayloadWellFormed(prev.param)
                /\ IdOf(prev.param) \in TableFormats
                /\ IdOf(prev.param) # IdOf(param) )
                  => prev.result.format # result.format

C7_BGRAAfterRGB ==
    /\ DesktopParsed
    /\ IdOf(param) = SPA_VIDEO_FORMAT_BGRA
    /\ RectOf(param) = SPA_RECTANGLE(1, 0)
    /\ result = [ format |-> SUPPORTED_PIXEL_FORMAT_BGRA, width |-> 1,
                  height |-> 0, padding |-> 0 ]
    /\ prev.valid
    /\ prev.returned_at = "end"
    /\ PayloadWellFormed(prev.param)
    /\ IdOf(prev.param) = SPA_VIDEO_FORMAT_RGB

\* C8: every format id the desktop offer lists, selected by the server at a
\* size within the offered range, parses to the internal format of the same
\* name (never to another format) with that size.
WithinOffer(r) ==
    LET min == offer.size.vals[2]
        max == offer.size.vals[3]
    IN  /\ min.width <= r.width /\ r.width <= max.width
        /\ min.height <= r.height /\ r.height <= max.height

C8_OfferedIsMapped ==
    ( /\ DesktopParsed
      /\ IdOf(param) \in Range(offer.format.vals)
      /\ WithinOffer(RectOf(param)) )
        => /\ <<IdOf(param), result.format>> \in NamedFormat
           /\ GeometryKept(param, result)

C8_OfferedBGRSelected ==
    /\ DesktopParsed
    /\ IdOf(param) = SPA_VIDEO_FORMAT_BGR
    /\ IdOf(param) \in Range(offer.format.vals)
    /\ RectOf(param) = offer.size.vals[1]
    /\ WithinOffer(RectOf(param))
    /\ result.format = SUPPORTED_PIXEL_FORMAT_BGR

\* C9: a call's result depends on its parameter object only: two calls with
\* equal objects return equal StreamFormats.
C9_SameObjectSameResult ==
    (pc = "Done" /\ prev.valid /\ prev.param = param)
        => prev.result = result

\* C10: a call that leaves by one of the three gates returns the all-zero
\* StreamFormat; in the desktop profile that is also what a successful
\* parse of an RGBA object of size 0x0 returns, format 0 being RGBA.
C10_RejectedIsAllZero ==
    /\ Rejected => result = AllZero
    /\ ( /\ DesktopParsed
         /\ IdOf(param) = SPA_VIDEO_FORMAT_RGBA
         /\ RectOf(param) = SPA_RECTANGLE(0, 0)
         /\ prev.valid
         /\ prev.returned_at \in {"header", "media_type", "media_subtype"} )
           => /\ result = prev.result
              /\ result.format = SUPPORTED_PIXEL_FORMAT_RGBA

C10_RGBAZeroAfterRejected ==
    /\ DesktopParsed
    /\ IdOf(param) = SPA_VIDEO_FORMAT_RGBA
    /\ RectOf(param) = SPA_RECTANGLE(0, 0)
    /\ prev.valid
    /\ prev.returned_at = "media_type"
    /\ prev.param.media_type = SPA_MEDIA_TYPE_audio
    /\ result = prev.result

====
